---- MODULE Spec2Model ----
(***************************************************************************)
(* Model of KlipperSaveRestorePosition                                     *)
(* (src/extensions/klipper_save_restore_position.py).                      *)
(*                                                                         *)
(* The object holds one list of three optional floats, _saved_position.    *)
(* Three G-code commands and two public methods act on it:                 *)
(*   KTC_SAVE_POSITION          -> offset_from_gcmd                        *)
(*   KTC_SAVE_CURRENT_POSITION  -> SaveCurrentPosition                     *)
(*   KTC_RESTORE_POSITION       -> restore_position                        *)
(* and get_status reads it.                                                *)
(*                                                                         *)
(* Representation.                                                         *)
(*   - An Optional value is a sequence of length 0 (None) or 1 (a value).  *)
(*   - A coordinate is an integer number of 0.0001 mm, so that the "%.3f"  *)
(*     conversion of restore_position has digits to round away.  A         *)
(*     formatted number "%.3f" is the integer number of 0.001 mm it reads.  *)
(*   - A Python str is a sequence of one-character strings.                *)
(*   - The G-code script "G0 X1.000 F3000" is the sequence of its terms    *)
(*     after "G0": <<[letter |-> "X", value |-> 1000],                     *)
(*                   [letter |-> "F", value |-> 3000]>>.                   *)
(*   - A raised exception is the field raised = TRUE of a result record.   *)
(***************************************************************************)
EXTENDS Integers, Sequences, FiniteSets, TLC

VARIABLES
    saved_position,  \* self._saved_position: three Optional coordinates
    op,              \* the call that has just run ("idle" between calls)
    args,            \* the arguments of that call
    pre,             \* self._saved_position when that call started
    outcome,         \* "ok": the call returned; "error": it raised
    script,          \* the scripts the call handed to run_script_from_command
    executor,        \* "not_called", "ok" or "failed": what the executor did
    error,           \* the exception the call raised, followed by its chain of
                     \* causes (raise ... from e); <<>> when it returned
    queries,         \* how often the call asked _get_gcode_position()
    status,          \* the list in the dict get_status has just returned
    xyz_capture,     \* the live position taken by the latest capture of
                     \* exactly "XYZ", while no later call has stored anything
    history          \* per axis, what became of the value most recently
                     \* stored for it: "never" (none was stored), "current"
                     \* (its slot holds it), "dropped" (unset since), "stale"
                     \* (its slot holds another value)

vars == <<saved_position, op, args, pre, outcome, script, executor, error,
          queries, status, xyz_capture, history>>

-----------------------------------------------------------------------------
(* Optional values *)

None == <<>>

Some(v) == <<v>>

Get(o) == o[1]

-----------------------------------------------------------------------------
(* Bounds and input sets *)

\* Longest AXIS string a caller passes explicitly (the default "XYZ" is
\* always available by leaving AXIS out).
MaxAxisLen == 2

\* Characters of an AXIS string: the axis letters, one lower-case letter,
\* one letter that is no axis, and the blank.
Chars == {"X", "Y", "Z", "x", "A", " "}

AxisStrings == UNION {[1..n -> Chars] : n \in 0..MaxAxisLen}

\* An AXIS argument: left out (None) or given.
AxisArgs == {None} \cup {Some(s) : s \in AxisStrings}

\* Absolute coordinates a payload gives: 5.0 and 10.1236.
PosValues == {50000, 101236}

\* Adjustments a payload gives: 2.5.
AdjustValues == {25000}

\* Coordinates the live position has: -3.0 and 10.1236.
LiveValues == {-30000, 101236}

\* SPEED values a caller gives (get_int sets no minimum).
SpeedValues == {-100, 0, 3000}

AxisNames == {"X", "Y", "Z"}

OptOf(S) == {None} \cup {Some(v) : v \in S}

\* The fields X, Y, Z, X_ADJUST, Y_ADJUST, Z_ADJUST of a KTC_SAVE_POSITION
\* command, as get_float(name, None) returns them.
Payloads == [AxisNames -> [pos : OptOf(PosValues), adjust : OptOf(AdjustValues)]]

LivePositions == [1..3 -> LiveValues]

NoPayload == [a \in AxisNames |-> [pos |-> None, adjust |-> None]]

NoArgs == [payload |-> NoPayload, axis |-> None, speed |-> None, cur |-> <<>>]

-----------------------------------------------------------------------------
(* Module constants *)

\* Faulty variant: the table has no lower-case keys.
XYZ_TO_INDEX_upper_case_only ==
    [c \in {"X", "Y", "Z"} |-> IF c = "X" THEN 0 ELSE IF c = "Y" THEN 1 ELSE 2]

XYZ_TO_INDEX == [c \in {"x", "X", "y", "Y", "z", "Z"} |->
                    IF c \in {"x", "X"} THEN 0
                    ELSE IF c \in {"y", "Y"} THEN 1 ELSE 2]

\* list[i] of a Python list held as a TLA+ sequence
At(list, i) == list[i + 1]

SetAt(list, i, v) == [list EXCEPT ![i + 1] = v]

AllNone == <<None, None, None>>

-----------------------------------------------------------------------------
(* "%.3f" % v: v in 0.0001 mm, the result in 0.001 mm, rounded to nearest   *)
(* (a tie goes to the even neighbour; the input sets hold no tie).         *)

\* Faulty variant: the digits after the third decimal are cut off.
Fmt3_truncating(v) == (v - (v % 10)) \div 10

Fmt3(v) ==
    LET r == v % 10
        q == (v - r) \div 10
    IN  IF r < 5 THEN q
        ELSE IF r > 5 THEN q + 1
        ELSE IF q % 2 = 0 THEN q ELSE q + 1

-----------------------------------------------------------------------------
(* str helpers *)

\* s.replace(" ", "")
RemoveSpaces(s) == SelectSeq(s, LAMBDA c : c # " ")

RECURSIVE LStrip(_)
LStrip(s) == IF s # <<>> /\ Head(s) = " " THEN LStrip(Tail(s)) ELSE s

RECURSIVE RStrip(_)
RStrip(s) ==
    IF s # <<>> /\ s[Len(s)] = " " THEN RStrip(SubSeq(s, 1, Len(s) - 1)) ELSE s

\* s.strip()
Strip(s) == RStrip(LStrip(s))

\* gcmd.get("AXIS", "XYZ")
GetAxis(axis) == IF axis = None THEN <<"X", "Y", "Z">> ELSE Get(axis)

-----------------------------------------------------------------------------
(* offset_from_gcmd: the loop over ["X", "Y", "Z"].  offset[i] += adjust    *)
(* raises TypeError when offset[i] is None; the list keeps what the loop   *)
(* wrote before the raise.                                                 *)

AxisList == <<"X", "Y", "Z">>

\* Faulty variant: an adjustment of an unset slot counts from 0 instead of raising.
RECURSIVE OffsetLoop_none_is_zero(_, _, _)
OffsetLoop_none_is_zero(gcmd, offset, k) ==
    IF k > Len(AxisList) THEN [raised |-> FALSE, offset |-> offset]
    ELSE LET axis   == AxisList[k]
             pos    == gcmd[axis].pos
             adjust == gcmd[axis].adjust
             i      == XYZ_TO_INDEX[axis]
             base   == IF At(offset, i) = None THEN 0 ELSE Get(At(offset, i))
         IN  IF pos # None
               THEN OffsetLoop_none_is_zero(gcmd, SetAt(offset, i, pos), k + 1)
             ELSE IF adjust # None
               THEN OffsetLoop_none_is_zero(gcmd,
                        SetAt(offset, i, Some(base + Get(adjust))), k + 1)
             ELSE OffsetLoop_none_is_zero(gcmd, offset, k + 1)

offset_from_gcmd_none_is_zero(gcmd, offset) ==
    OffsetLoop_none_is_zero(gcmd, offset, 1)

\* Faulty variant: the adjustment is tested before the absolute value.
RECURSIVE OffsetLoop_adjust_first(_, _, _)
OffsetLoop_adjust_first(gcmd, offset, k) ==
    IF k > Len(AxisList) THEN [raised |-> FALSE, offset |-> offset]
    ELSE LET axis   == AxisList[k]
             pos    == gcmd[axis].pos
             adjust == gcmd[axis].adjust
             i      == XYZ_TO_INDEX[axis]
         IN  IF adjust # None
               THEN IF At(offset, i) = None
                      THEN [raised |-> TRUE, offset |-> offset]
                      ELSE OffsetLoop_adjust_first(gcmd,
                               SetAt(offset, i,
                                     Some(Get(At(offset, i)) + Get(adjust))),
                               k + 1)
             ELSE IF pos # None
               THEN OffsetLoop_adjust_first(gcmd, SetAt(offset, i, pos), k + 1)
             ELSE OffsetLoop_adjust_first(gcmd, offset, k + 1)

offset_from_gcmd_adjust_first(gcmd, offset) ==
    OffsetLoop_adjust_first(gcmd, offset, 1)

RECURSIVE OffsetLoop(_, _, _)
OffsetLoop(gcmd, offset, k) ==
    IF k > Len(AxisList) THEN [raised |-> FALSE, offset |-> offset]
    ELSE LET axis   == AxisList[k]
             pos    == gcmd[axis].pos
             adjust == gcmd[axis].adjust
             i      == XYZ_TO_INDEX[axis]
         IN  IF pos # None
               THEN OffsetLoop(gcmd, SetAt(offset, i, pos), k + 1)
             ELSE IF adjust # None
               THEN IF At(offset, i) = None
                      THEN [raised |-> TRUE, offset |-> offset]
                      ELSE OffsetLoop(gcmd,
                               SetAt(offset, i,
                                     Some(Get(At(offset, i)) + Get(adjust))),
                               k + 1)
             ELSE OffsetLoop(gcmd, offset, k + 1)

\* offset_from_gcmd(gcmd, offset): whether it raised, and the list offset
\* as the loop left it.
offset_from_gcmd(gcmd, offset) == OffsetLoop(gcmd, offset, 1)

\* Faulty variant: the handler hands self._saved_position itself to
\* offset_from_gcmd, which then writes into the stored list.
KTC_SAVE_POSITION_in_place(self, gcmd) ==
    LET r == offset_from_gcmd(gcmd, self)
    IN  [raised |-> r.raised, saved |-> r.offset]

\* Faulty variant: the handler starts offset_from_gcmd from a copy of the
\* stored list instead of [None, None, None].
KTC_SAVE_POSITION_from_copy(self, gcmd) ==
    LET r == offset_from_gcmd(gcmd, self)
    IN  [raised |-> r.raised,
         saved  |-> IF r.raised THEN self ELSE r.offset]

\* cmd_KTC_SAVE_POSITION: the result of the try block and the value of
\* self._saved_position afterwards.
KTC_SAVE_POSITION(self, gcmd) ==
    LET r == offset_from_gcmd(gcmd, AllNone)
    IN  [raised |-> r.raised,
         saved  |-> IF r.raised THEN self ELSE r.offset]

-----------------------------------------------------------------------------
(* SaveCurrentPosition *)

RECURSIVE CaptureLoop(_, _, _, _)
CaptureLoop(saved, restore_axis, current_position, k) ==
    IF k > Len(restore_axis) THEN saved
    ELSE LET axis == restore_axis[k]
         IN  IF axis \in DOMAIN XYZ_TO_INDEX
               THEN LET i == XYZ_TO_INDEX[axis]
                    IN  CaptureLoop(SetAt(saved, i, Some(At(current_position, i))),
                                    restore_axis, current_position, k + 1)
               ELSE CaptureLoop(saved, restore_axis, current_position, k + 1)

\* Faulty variant: the position is fetched inside the loop, once for every
\* recognized character.
GetPositionCalls_per_axis(restore_axis) ==
    Len(SelectSeq(restore_axis, LAMBDA c : c \in DOMAIN XYZ_TO_INDEX))

\* Line 84 stands before the loop: SaveCurrentPosition calls
\* _get_gcode_position() once, whatever restore_axis holds, and gets the
\* whole position.
GetPositionCalls(restore_axis) == 1

\* Faulty variant: the coordinates are appended to the reset list instead
\* of being written at their index.
SaveCurrentPosition_appending(self, restore_axis, current_position) ==
    LET kept == SelectSeq(restore_axis, LAMBDA c : c \in DOMAIN XYZ_TO_INDEX)
    IN  AllNone \o [k \in 1..Len(kept) |->
                       Some(At(current_position, XYZ_TO_INDEX[kept[k]]))]

\* Faulty variant: the list is not reset before the loop.
SaveCurrentPosition_no_reset(self, restore_axis, current_position) ==
    CaptureLoop(self, restore_axis, current_position, 1)

\* self._saved_position after SaveCurrentPosition(restore_axis), with
\* current_position the list _get_gcode_position() returned.
SaveCurrentPosition(self, restore_axis, current_position) ==
    CaptureLoop(AllNone, restore_axis, current_position, 1)

-----------------------------------------------------------------------------
(* restore_position *)

\* The loop of lines 110-112.  XYZ_TO_INDEX[axis] raises KeyError for a
\* character that is no key.
RECURSIVE RestoreLoop(_, _, _, _)
RestoreLoop(self, axis_to_restore, cmd, k) ==
    IF k > Len(axis_to_restore) THEN [raised |-> FALSE, cmd |-> cmd]
    ELSE LET axis == axis_to_restore[k]
         IN  IF axis \notin DOMAIN XYZ_TO_INDEX
               THEN [raised |-> TRUE, cmd |-> cmd]
             ELSE IF At(self, XYZ_TO_INDEX[axis]) # None
               THEN RestoreLoop(self, axis_to_restore,
                        Append(cmd, [letter |-> axis,
                                     value  |-> Fmt3(Get(At(self, XYZ_TO_INDEX[axis])))]),
                        k + 1)
             ELSE RestoreLoop(self, axis_to_restore, cmd, k + 1)

\* Lines 113-118 after the loop: the feed term, the executor call and the
\* re-raise.  fails: run_script_from_command raises.  cause: the
\* exception caught at line 117, which line 118 chains to the new one.
RestoreFinish(self, loop, speed, fails) ==
    IF loop.raised
      THEN [raised |-> TRUE, script |-> <<>>, executor |-> "not_called",
            saved |-> self, error |-> <<"Exception", "KeyError">>]
    ELSE IF loop.cmd # <<>>
      THEN LET cmd == IF speed # None /\ Get(speed) # 0
                        THEN Append(loop.cmd,
                                    [letter |-> "F", value |-> Get(speed)])
                        ELSE loop.cmd
           IN  [raised   |-> fails,
                script   |-> <<cmd>>,
                executor |-> IF fails THEN "failed" ELSE "ok",
                saved    |-> self,
                error    |-> IF fails THEN <<"Exception", "executor failure">>
                             ELSE <<>>]
    ELSE [raised |-> FALSE, script |-> <<>>, executor |-> "not_called",
          saved |-> self, error |-> <<>>]

\* Faulty variant: the axes are walked in the fixed order X, Y, Z.
restore_position_fixed_order(self, axis_to_restore, speed, fails) ==
    LET InRequest(c) == \E k \in 1..Len(axis_to_restore) :
                            axis_to_restore[k] \in DOMAIN XYZ_TO_INDEX
                            /\ XYZ_TO_INDEX[axis_to_restore[k]] = XYZ_TO_INDEX[c]
        bad == \E k \in 1..Len(axis_to_restore) :
                   axis_to_restore[k] \notin DOMAIN XYZ_TO_INDEX
    IN  RestoreFinish(self,
            IF bad THEN [raised |-> TRUE, cmd |-> <<>>]
            ELSE RestoreLoop(self, SelectSeq(AxisList, InRequest), <<>>, 1),
            speed, fails)

\* Faulty variant: a restored position is consumed, the list is reset afterwards.
restore_position_consuming(self, axis_to_restore, speed, fails) ==
    LET r == RestoreFinish(self, RestoreLoop(self, axis_to_restore, <<>>, 1),
                           speed, fails)
    IN  [r EXCEPT !.saved = IF r.executor = "not_called" THEN self ELSE AllNone]

\* Faulty variant: the feed term is written whenever SPEED is given, 0
\* included (speed is not None instead of speed).
restore_position_feed_if_given(self, axis_to_restore, speed, fails) ==
    LET r == RestoreFinish(self, RestoreLoop(self, axis_to_restore, <<>>, 1),
                           None, fails)
    IN  IF r.script # <<>> /\ speed # None
          THEN [r EXCEPT !.script =
                   <<Append(r.script[1], [letter |-> "F", value |-> Get(speed)])>>]
          ELSE r

\* Faulty variant: the except clause swallows the executor's failure and
\* the method returns.
restore_position_swallowing(self, axis_to_restore, speed, fails) ==
    LET r == RestoreFinish(self, RestoreLoop(self, axis_to_restore, <<>>, 1),
                           speed, fails)
    IN  IF r.executor = "failed"
          THEN [r EXCEPT !.raised = FALSE, !.error = <<>>]
          ELSE r

\* Faulty variant: a requested axis whose slot is unset is commanded to 0.
restore_position_unset_is_zero(self, axis_to_restore, speed, fails) ==
    LET filled == [j \in 1..3 |-> IF self[j] = None THEN Some(0) ELSE self[j]]
        r == RestoreFinish(filled, RestoreLoop(filled, axis_to_restore, <<>>, 1),
                           speed, fails)
    IN  [r EXCEPT !.saved = self]

\* restore_position(axis_to_restore, speed): whether it raised (and what),
\* what it handed to the executor, and self._saved_position afterwards.
restore_position(self, axis_to_restore, speed, fails) ==
    RestoreFinish(self, RestoreLoop(self, axis_to_restore, <<>>, 1), speed, fails)

-----------------------------------------------------------------------------
(* The state machine.  The G-code dispatcher runs one command at a time;   *)
(* a handler runs to its end in one step, and Return is the dispatcher     *)
(* taking the result and going back to wait for the next call.             *)

Init ==
    /\ saved_position = AllNone
    /\ op = "idle"
    /\ args = NoArgs
    /\ pre = AllNone
    /\ outcome = "none"
    /\ script = <<>>
    /\ executor = "not_called"
    /\ error = <<>>
    /\ queries = 0
    /\ status = <<>>
    /\ xyz_capture = None
    /\ history = [j \in 1..3 |-> "never"]

-----------------------------------------------------------------------------
(* The history of the stored values.  The axis letters are spelled out    *)
(* here, apart from XYZ_TO_INDEX, so that the history and the properties   *)
(* say what the code is to do and not what its table happens to hold.      *)

\* The identifiers of slot j (1 = X, 2 = Y, 3 = Z).
Names(j) == IF j = 1 THEN {"X", "x"} ELSE IF j = 2 THEN {"Y", "y"} ELSE {"Z", "z"}

Recognised(c) == \E j \in 1..3 : c \in Names(j)

SlotOf(c) == CHOOSE j \in 1..3 : c \in Names(j)

Named(s, j) == \E k \in 1..Len(s) : s[k] \in Names(j)

\* The history after a call that handed given[j] to the store for axis j
\* (None: nothing for that axis) and turned the slots from `before` into
\* `after`.  An axis that was given a value is "current" when its slot holds
\* just that value; an axis that was given none keeps its history when its
\* slot is untouched and is "dropped" when its slot has become unset.
AfterWrite(hist, given, before, after) ==
    [j \in 1..3 |->
        IF given[j] # None
          THEN IF after[j] = given[j] THEN "current" ELSE "stale"
        ELSE IF after[j] = before[j] THEN hist[j]
        ELSE IF after[j] = None THEN "dropped"
        ELSE "stale"]

\* The history after a capture of restore_axis from current_position: a
\* named axis is given the live value, an axis the capture does not name has
\* lost whatever value it had.
AfterCapture(hist, restore_axis, current_position, after) ==
    [j \in 1..3 |->
        IF Named(restore_axis, j)
          THEN IF after[j] = Some(current_position[j]) THEN "current"
               ELSE "stale"
        ELSE IF hist[j] = "never" THEN "never"
        ELSE "dropped"]

-----------------------------------------------------------------------------
(* The calls *)

\* KTC_SAVE_POSITION [X=] [Y=] [Z=] [X_ADJUST=] [Y_ADJUST=] [Z_ADJUST=]
cmd_KTC_SAVE_POSITION ==
    /\ op = "idle"
    /\ \E gcmd \in Payloads :
         LET r == KTC_SAVE_POSITION(saved_position, gcmd)
         IN  /\ saved_position' = r.saved
             /\ outcome' = IF r.raised THEN "error" ELSE "ok"
             /\ error' = IF r.raised THEN <<"gcmd.error", "TypeError">>
                          ELSE <<>>
             /\ args' = [NoArgs EXCEPT !.payload = gcmd]
             /\ history' = AfterWrite(history,
                                [j \in 1..3 |-> IF r.raised THEN None
                                                ELSE gcmd[AxisList[j]].pos],
                                saved_position, r.saved)
    /\ op' = "KTC_SAVE_POSITION"
    /\ pre' = saved_position
    /\ xyz_capture' = None
    /\ UNCHANGED <<script, executor, queries, status>>

\* KTC_SAVE_CURRENT_POSITION [AXIS=]
cmd_KTC_SAVE_CURRENT_POSITION ==
    /\ op = "idle"
    /\ \E axis \in AxisArgs, current_position \in LivePositions :
         LET restore_axis == RemoveSpaces(GetAxis(axis))
         IN  /\ saved_position' =
                    SaveCurrentPosition(saved_position, restore_axis,
                                        current_position)
             /\ args' = [NoArgs EXCEPT !.axis = axis, !.cur = current_position]
             /\ queries' = GetPositionCalls(restore_axis)
             /\ history' = AfterCapture(history, restore_axis,
                                        current_position, saved_position')
             /\ xyz_capture' = IF restore_axis = <<"X", "Y", "Z">>
                                 THEN Some(current_position) ELSE None
    /\ op' = "KTC_SAVE_CURRENT_POSITION"
    /\ pre' = saved_position
    /\ outcome' = "ok"
    /\ UNCHANGED <<script, executor, error, status>>

\* A direct call SaveCurrentPosition(restore_axis) from another module.
Call_SaveCurrentPosition ==
    /\ op = "idle"
    /\ \E restore_axis \in AxisStrings, current_position \in LivePositions :
         /\ saved_position' =
                SaveCurrentPosition(saved_position, restore_axis,
                                    current_position)
         /\ args' = [NoArgs EXCEPT !.axis = Some(restore_axis),
                                   !.cur = current_position]
         /\ queries' = GetPositionCalls(restore_axis)
         /\ history' = AfterCapture(history, restore_axis, current_position,
                                    saved_position')
         /\ xyz_capture' = IF restore_axis = <<"X", "Y", "Z">>
                             THEN Some(current_position) ELSE None
    /\ op' = "SaveCurrentPosition"
    /\ pre' = saved_position
    /\ outcome' = "ok"
    /\ UNCHANGED <<script, executor, error, status>>

\* KTC_RESTORE_POSITION [AXIS=] [SPEED=]
cmd_KTC_RESTORE_POSITION ==
    /\ op = "idle"
    /\ \E axis \in AxisArgs, speed \in OptOf(SpeedValues), fails \in BOOLEAN :
         LET axis_to_restore == Strip(GetAxis(axis))
             r == restore_position(saved_position, axis_to_restore, speed, fails)
         IN  /\ r.executor = "not_called" => ~fails
             /\ saved_position' = r.saved
             /\ outcome' = IF r.raised THEN "error" ELSE "ok"
             /\ script' = r.script
             /\ executor' = r.executor
             /\ error' = IF r.raised THEN <<"gcmd.error">> \o r.error ELSE <<>>
             /\ args' = [NoArgs EXCEPT !.axis = axis, !.speed = speed]
    /\ op' = "KTC_RESTORE_POSITION"
    /\ pre' = saved_position
    /\ UNCHANGED <<queries, status, xyz_capture, history>>

\* A direct call restore_position([axis_to_restore], [speed]).
Call_restore_position ==
    /\ op = "idle"
    /\ \E axis \in AxisArgs, speed \in OptOf(SpeedValues), fails \in BOOLEAN :
         LET r == restore_position(saved_position, GetAxis(axis), speed, fails)
         IN  /\ r.executor = "not_called" => ~fails
             /\ saved_position' = r.saved
             /\ outcome' = IF r.raised THEN "error" ELSE "ok"
             /\ script' = r.script
             /\ executor' = r.executor
             /\ error' = r.error
             /\ args' = [NoArgs EXCEPT !.axis = axis, !.speed = speed]
    /\ op' = "restore_position"
    /\ pre' = saved_position
    /\ UNCHANGED <<queries, status, xyz_capture, history>>

\* Line 122 puts self._saved_position itself into the dict, not a copy:
\* the list the caller receives is the list the store holds.
StatusSharesList == TRUE

get_status ==
    /\ op = "idle"
    /\ op' = "get_status"
    /\ status' = saved_position
    /\ pre' = saved_position
    /\ outcome' = "ok"
    /\ UNCHANGED <<saved_position, args, script, executor, error, queries,
                   xyz_capture, history>>

\* The call is over: the dispatcher waits for the next one.
Return ==
    /\ op # "idle"
    /\ op' = "idle"
    /\ args' = NoArgs
    /\ pre' = AllNone
    /\ outcome' = "none"
    /\ script' = <<>>
    /\ executor' = "not_called"
    /\ error' = <<>>
    /\ queries' = 0
    /\ status' = <<>>
    /\ UNCHANGED <<saved_position, xyz_capture, history>>

Next ==
    \/ cmd_KTC_SAVE_POSITION
    \/ cmd_KTC_SAVE_CURRENT_POSITION
    \/ Call_SaveCurrentPosition
    \/ cmd_KTC_RESTORE_POSITION
    \/ Call_restore_position
    \/ get_status
    \/ Return

Spec == Init /\ [][Next]_vars

\* The caller of get_status assigns to an element of the list it has just
\* received, status["saved_position"][j] = v.
CallerWritesStatus ==
    /\ op = "get_status"
    /\ \E j \in 1..3, v \in OptOf(PosValues) :
         /\ status' = [status EXCEPT ![j] = v]
         /\ saved_position' = IF StatusSharesList
                                THEN [saved_position EXCEPT ![j] = v]
                                ELSE saved_position
         /\ history' = AfterWrite(history, [AllNone EXCEPT ![j] = v],
                                  saved_position, saved_position')
    /\ op' = "caller_write"
    /\ pre' = saved_position
    /\ xyz_capture' = None
    /\ UNCHANGED <<args, outcome, script, executor, error, queries>>

NextAliased ==
    \/ Next
    \/ CallerWritesStatus

\* The store together with a caller that writes into what get_status
\* returned.
SpecAliased == Init /\ [][NextAliased]_vars

TypeOK ==
    /\ Len(saved_position) = 3
    /\ op \in {"idle", "KTC_SAVE_POSITION", "KTC_SAVE_CURRENT_POSITION",
               "SaveCurrentPosition", "KTC_RESTORE_POSITION",
               "restore_position", "get_status", "caller_write"}
    /\ outcome \in {"none", "ok", "error"}
    /\ executor \in {"not_called", "ok", "failed"}
    /\ Len(script) <= 1
    /\ history \in [1..3 -> {"never", "current", "dropped", "stale"}]

-----------------------------------------------------------------------------
(* Vocabulary of the properties *)

IsSave == op = "KTC_SAVE_POSITION"

IsCapture == op \in {"KTC_SAVE_CURRENT_POSITION", "SaveCurrentPosition"}

IsRestore == op \in {"KTC_RESTORE_POSITION", "restore_position"}

\* The axis identifiers the caller of a capture or a restore asked for.
Request == GetAxis(args.axis)

\* The payload gives axis j an adjustment and no absolute value.
AdjustOnly(j) ==
    /\ args.payload[AxisList[j]].pos = None
    /\ args.payload[AxisList[j]].adjust # None

Abs(n) == IF n < 0 THEN -n ELSE n

\* t (in 0.001) is v (in 0.0001) written with three decimals.
Rounds3(t, v) == Abs(10 * t - v) <= 5

\* The axis terms of a script: all but the feed term.
AxisTerms(cmd) == SelectSeq(cmd, LAMBDA t : t.letter # "F")

\* The places of the request that name a slot holding a value.
HeldPlaces ==
    {k \in 1..Len(Request) :
        Recognised(Request[k]) /\ pre[SlotOf(Request[k])] # None}

-----------------------------------------------------------------------------
\* C1: after KTC_SAVE_POSITION with a payload of absolute values only, each
\* axis the payload names holds the payload's value and each axis it does
\* not name holds what it held before the call.
C1_AbsolutePayloadKeepsUnmentioned ==
    (IsSave /\ \A a \in AxisNames : args.payload[a].adjust = None) =>
        /\ outcome = "ok"
        /\ \A j \in 1..3 :
             LET p == args.payload[AxisList[j]].pos
             IN  saved_position[j] = IF p # None THEN p ELSE pre[j]

\* C2: after a capture, each axis the axis string names by a recognized
\* identifier holds the live position of that axis, every other axis is
\* unset whatever it held before, and no character of the string is an
\* error.
C2_CaptureSetsExactlyNamedAxes ==
    IsCapture =>
        /\ outcome = "ok"
        /\ \A j \in 1..3 :
             saved_position[j] =
                 IF Named(Request, j) THEN Some(args.cur[j]) ELSE None

C2_Witness ==
    /\ IsCapture
    /\ \E k \in 1..Len(Request) : Request[k] = "A"
    /\ \E j \in 1..3 : Named(Request, j) /\ saved_position[j] = Some(args.cur[j])
    /\ \E j \in 1..3 : ~Named(Request, j) /\ pre[j] # None /\ saved_position[j] = None

\* C3: a script handed to the executor by a restore has one axis term per
\* requested axis whose slot holds a value, in the order of the request,
\* each with the requested letter and the slot's value to three decimals,
\* and no term for a requested axis whose slot is unset.
C3_TermsFollowRequestOrder ==
    (IsRestore /\ script # <<>>) =>
        LET terms == AxisTerms(script[1])
        IN  \E f \in [1..Len(terms) -> 1..Len(Request)] :
              /\ \A a, b \in 1..Len(terms) : a < b => f[a] < f[b]
              /\ {f[a] : a \in 1..Len(terms)} = HeldPlaces
              /\ \A a \in 1..Len(terms) :
                   /\ terms[a].letter = Request[f[a]]
                   /\ Rounds3(terms[a].value, Get(pre[SlotOf(Request[f[a]])]))

C3_Witness ==
    /\ IsRestore
    /\ Request = <<"Z", "X">>
    /\ pre[1] # None /\ pre[3] # None /\ pre[1] # pre[3]
    /\ Len(script) = 1
    /\ Len(AxisTerms(script[1])) = 2
    /\ AxisTerms(script[1])[1].letter = "Z"
    /\ AxisTerms(script[1])[2].letter = "X"

\* C4: one restore hands exactly one script to the executor when a
\* requested axis holds a value, and none, without raising, when no
\* requested axis holds a value.
C4_ExecutorCalledOnceOrNever ==
    IsRestore =>
        IF HeldPlaces # {}
          THEN Len(script) = 1
          ELSE Len(script) = 0 /\ outcome = "ok"

\* C5: KTC_SAVE_POSITION with an adjustment and no absolute value for an
\* axis whose slot holds v succeeds and leaves v + adjustment in the slot.
C5_AdjustAddsToStoredValue ==
    \A j \in 1..3 :
        (/\ IsSave
         /\ AdjustOnly(j)
         /\ \A i \in 1..3 : AdjustOnly(i) => pre[i] # None) =>
            /\ outcome = "ok"
            /\ saved_position[j] =
                   Some(Get(pre[j]) + Get(args.payload[AxisList[j]].adjust))

\* C6: KTC_SAVE_POSITION with an adjustment and no absolute value for an
\* axis whose slot is unset ends in an error and never returns normally.
C6_AdjustOfUnsetSlotIsAnError ==
    (IsSave /\ \E j \in 1..3 : AdjustOnly(j) /\ pre[j] = None) =>
        outcome = "error"

C6_Witness ==
    /\ IsSave
    /\ AdjustOnly(2) /\ pre[2] = None
    /\ pre[1] # None
    /\ outcome = "error"

\* C7: a KTC_SAVE_POSITION that ends in an error leaves all three slots as
\* they were before the call, and the next call can follow.
C7_FailedSaveChangesNothing ==
    (IsSave /\ outcome = "error") =>
        /\ saved_position = pre
        /\ ENABLED Return

C7_Witness ==
    /\ IsSave
    /\ outcome = "error"
    /\ args.payload["X"].pos # None
    /\ args.payload["X"].pos # pre[1]
    /\ AdjustOnly(2) /\ pre[2] = None
    /\ saved_position[1] = pre[1]

\* C8: a restore leaves the three slots as they were before the call,
\* whether the executor succeeds or fails.
C8_RestoreKeepsSnapshot ==
    IsRestore => saved_position = pre

C8_Witness ==
    /\ IsRestore
    /\ executor = "failed"
    /\ outcome = "error"
    /\ pre # AllNone
    /\ saved_position = pre

\* C9: a restore whose request holds an unrecognized character does not
\* raise for it, and still commands the recognized requested axes that hold
\* a value.
C9_RestoreToleratesUnknownAxis ==
    (IsRestore /\ \E k \in 1..Len(Request) : ~Recognised(Request[k])) =>
        /\ outcome = "error" => executor = "failed"
        /\ HeldPlaces # {} =>
             /\ Len(script) = 1
             /\ \A k \in HeldPlaces :
                  \E a \in 1..Len(script[1]) : script[1][a].letter = Request[k]

\* The restore of X, Y, Z without feed rate that follows a capture of
\* X, Y, Z.
RoundTrip ==
    /\ IsRestore
    /\ xyz_capture # None
    /\ Request = <<"X", "Y", "Z">>
    /\ args.speed = None

\* C10 as stated: the round trip hands the executor one script with a term
\* for each of X, Y, Z whose value equals the live value captured, and no
\* feed term.
C10_RoundTripExact ==
    RoundTrip =>
        /\ Len(script) = 1
        /\ Len(script[1]) = 3
        /\ \A j \in 1..3 :
             /\ script[1][j].letter = AxisList[j]
             /\ 10 * script[1][j].value = Get(xyz_capture)[j]

\* C10 amended: the round trip hands the executor one script with a term
\* for each of X, Y, Z whose value is the live value captured rounded to
\* three decimals, and no feed term.
C10_RoundTripToThreeDecimals ==
    RoundTrip =>
        /\ Len(script) = 1
        /\ Len(script[1]) = 3
        /\ \A j \in 1..3 :
             /\ script[1][j].letter = AxisList[j]
             /\ Rounds3(script[1][j].value, Get(xyz_capture)[j])

C10_Witness ==
    /\ RoundTrip
    /\ Len(script) = 1
    /\ \E j \in 1..3 : Get(xyz_capture)[j] % 10 # 0
    /\ \E j \in 1..3 : Get(xyz_capture)[j] % 10 = 0

\* The feed terms of a script.
FeedTerms(cmd) == SelectSeq(cmd, LAMBDA t : t.letter = "F")

\* What C11 says of a restore, with FeedWanted the condition on SPEED
\* under which the feed term is written: no script without an axis term;
\* a feed term exactly when FeedWanted; the feed term is single, last, and
\* carries SPEED.
FeedRule(FeedWanted) ==
    IsRestore =>
        /\ script # <<>> => AxisTerms(script[1]) # <<>>
        /\ script # <<>> =>
             LET cmd == script[1]
             IN  /\ FeedTerms(cmd) # <<>> <=> FeedWanted
                 /\ FeedTerms(cmd) # <<>> =>
                      /\ Len(FeedTerms(cmd)) = 1
                      /\ cmd[Len(cmd)].letter = "F"
                      /\ cmd[Len(cmd)].value = Get(args.speed)

\* C11 as stated: the feed term is written exactly when an axis term was
\* written and a positive feed rate was given; it is the last term and
\* carries the integer given; no feed rate, no feed term; a feed rate alone
\* never makes a script.
C11_FeedTermIffPositiveSpeed ==
    FeedRule(args.speed # None /\ Get(args.speed) > 0)

\* C11 amended: as C11, with the feed term written exactly when an axis
\* term was written and a feed rate other than 0 was given, a negative one
\* included.
C11_FeedTermIffNonZeroSpeed ==
    FeedRule(args.speed # None /\ Get(args.speed) # 0)

C11_Witness ==
    /\ IsRestore
    /\ args.speed = Some(3000)
    /\ Len(script) = 1
    /\ Len(AxisTerms(script[1])) = 2
    /\ Len(script[1]) = 3
    /\ script[1][3] = [letter |-> "F", value |-> 3000]

\* C12: when the executor fails during a restore, the call ends in an
\* error whose chain of causes ends in the executor's failure; it never
\* returns normally.
C12_ExecutorFailureIsRaised ==
    (IsRestore /\ executor = "failed") =>
        /\ outcome = "error"
        /\ error # <<>>
        /\ error[Len(error)] = "executor failure"

C12_Witness ==
    /\ op = "KTC_RESTORE_POSITION"
    /\ executor = "failed"
    /\ Len(script) = 1
    /\ error = <<"gcmd.error", "Exception", "executor failure">>

\* The snapshot is three slots, each unset or one number.
ThreeSlots ==
    /\ Len(saved_position) = 3
    /\ \A j \in 1..3 :
         \/ saved_position[j] = None
         \/ Len(saved_position[j]) = 1 /\ saved_position[j][1] \in Int

\* C13: in the initial state all three slots are unset, and in every state
\* reached by saves, captures, restores and status queries, failed ones
\* included, the snapshot is exactly three slots, each a number or unset.
C13_AlwaysThreeSlots ==
    /\ saved_position = AllNone
    /\ []ThreeSlots

C13_Witness ==
    /\ IsSave
    /\ outcome = "error"
    /\ ThreeSlots
    /\ saved_position[1] # None
    /\ saved_position[2] = None

\* The payload gives axis j an absolute value and an adjustment.
Both(j) ==
    /\ args.payload[AxisList[j]].pos # None
    /\ args.payload[AxisList[j]].adjust # None

\* C14: when the payload gives an axis both an absolute value and an
\* adjustment, the absolute value wins: a save fails only for an axis given
\* an adjustment alone, and after a save that succeeds the slot holds the
\* absolute value, also when it was unset before.
C14_AbsoluteWinsOverAdjust ==
    IsSave =>
        /\ outcome = "error" => \E i \in 1..3 : AdjustOnly(i)
        /\ \A j \in 1..3 :
             (Both(j) /\ outcome = "ok") =>
                 saved_position[j] = args.payload[AxisList[j]].pos

C14_Witness ==
    /\ IsSave
    /\ Both(1)
    /\ pre[1] = None
    /\ outcome = "ok"
    /\ saved_position[1] = args.payload["X"].pos

NamedSet(s) == {j \in 1..3 : Named(s, j)}

\* The one upper-case string in the order X, Y, Z, without repeats, that
\* names the slots N.
Canon(N) == SelectSeq(AxisList, LAMBDA c : SlotOf(c) \in N)

\* C16: the snapshot after a capture is the one the capture of the
\* canonical string of the named axes gives for the same live position, so
\* letter case, order, repeats, blanks and unrecognized characters make no
\* difference; the capture of the empty string leaves all slots unset.
C16_CaptureDependsOnNamedSet ==
    IsCapture =>
        /\ saved_position =
               SaveCurrentPosition(pre, Canon(NamedSet(Request)), args.cur)
        /\ Request = <<>> => saved_position = AllNone

C16_Witness ==
    /\ IsCapture
    /\ Request = <<"Z", "x">>
    /\ saved_position = <<Some(args.cur[1]), None, Some(args.cur[3])>>
    /\ args.cur[1] # args.cur[3]

\* C17 as stated: a capture asks the live-position provider once for each
\* requested recognized axis and not for the others; the capture of the
\* empty string asks nothing.
C17_OneQueryPerNamedAxis ==
    IsCapture => queries = Cardinality(NamedSet(Request))

\* C17 amended: a capture asks the live-position provider exactly once, for
\* the whole position, whatever axes are requested, the empty string
\* included; of that one answer only the coordinates of the requested
\* recognized axes reach the snapshot.  No other call asks the provider.
C17_OneQueryPerCapture ==
    /\ IsCapture =>
         /\ queries = 1
         /\ \A j \in 1..3 :
              saved_position[j] # None =>
                  Named(Request, j) /\ saved_position[j] = Some(args.cur[j])
    /\ ~IsCapture => queries = 0

C17_Witness ==
    /\ IsCapture
    /\ Request = <<>>
    /\ queries = 1
    /\ saved_position = AllNone

\* C18: get_status returns the three slots as they are and leaves them as
\* they are, and a caller that writes into the value it received does not
\* change the store's snapshot.
C18_StatusIsReadOnly ==
    /\ op = "get_status" => status = saved_position /\ saved_position = pre
    /\ op = "caller_write" => saved_position = pre

\* The axis terms of the script a restore handed to the executor.
Commanded == IF script = <<>> THEN <<>> ELSE AxisTerms(script[1])

Exactly(t, v) == 10 * t = v

\* Every axis term of a restore is for an axis whose slot held a value when
\* the restore was called, that value being the one most recently stored for
\* the axis, and carries it as Same allows; an axis whose value was dropped
\* has no term.
RestoresLatest(Same(_, _)) ==
    IsRestore =>
        /\ \A a \in 1..Len(Commanded) :
             /\ Recognised(Commanded[a].letter)
             /\ LET j == SlotOf(Commanded[a].letter)
                IN  /\ pre[j] # None
                    /\ history[j] = "current"
                    /\ Same(Commanded[a].value, Get(pre[j]))
        /\ \A j \in 1..3 :
             history[j] = "dropped" =>
                 \A a \in 1..Len(Commanded) : Commanded[a].letter \notin Names(j)

\* C15: a restore commands only axes whose slot is set when it is called,
\* each with exactly the value most recently stored for that axis; an axis
\* that had a value and was left out by the latest capture is not commanded
\* until a value is stored for it again.
C15_RestoresExactlyLatestStored == RestoresLatest(Exactly)

\* C15 amended: a restore commands only axes whose slot is set when it is
\* called, each with the value most recently stored for that axis rounded
\* to three decimals; an axis that had a value and was left out by the
\* latest capture is not commanded until a value is stored for it again.
C15_RestoresLatestStoredRounded == RestoresLatest(Rounds3)

\* A restore of all three axes after a capture that left one of them out:
\* the two captured axes are commanded, one of them with a value that has a
\* fourth decimal, and the third, which had a value before, is not.
C15_Witness ==
    /\ IsRestore
    /\ \E j \in 1..3 : history[j] = "dropped" /\ Named(Request, j)
    /\ Len(Commanded) = 2
    /\ \E a \in 1..2 : Get(pre[SlotOf(Commanded[a].letter)]) % 10 # 0
    /\ \E a \in 1..2 :
         Get(pre[SlotOf(Commanded[a].letter)]) \in LiveValues \ PosValues

====
